---- MODULE Spec2Model ----
(***************************************************************************)
(* Model of the meta-training driver of talking-heads (src/generate.py):   *)
(* main -> meta_train -> {load_model, save_model, save_image}.             *)
(*                                                                         *)
(* Tensors are abstracted to what the driver decides about them: which     *)
(* frames were fed to the embedder, on which parameter version a frame was *)
(* generated, whether it was detached, which losses contributed to the     *)
(* gradient buffers of the two optimizers, on which device a network's     *)
(* parameters live, and which checkpoint files exist.                      *)
(***************************************************************************)
EXTENDS Integers, Sequences, FiniteSets, TLC

VARIABLES
    pc,            \* position of the run inside main / meta_train
    error,         \* "none", or the place where an exception ended the run
    cudaAvailable, \* torch.cuda.is_available()
    ngpu,          \* args.ngpu
    device,        \* the device main passes to meta_train
    continue_id,   \* args.continue_id (<<>> is None)
    now,           \* the wall clock, as last read
    run_start,     \* meta_train's run_start
    files,         \* checkpoint files that exist on disk
    loaded,        \* files read by load_model, in order
    loc,           \* where each network's parameters live: "cpu" or "cuda"
    cudaOps,       \* operations that selected or used a CUDA device, in order
    optimizers,    \* the optimizers created so far
    datasetLen,    \* len(dataset)
    epoch,         \* the epoch counter of the outer loop
    pos,           \* items the inner loop has taken from the dataset this epoch
    video,         \* frames of the current video (their ids), after the pop
    t,             \* the frame put aside (0 before the pop)
    e_vectors,     \* frames whose embedding was appended to e_vectors
    e_hat,         \* frames whose embeddings were averaged into e_hat
    x_hat,         \* the generated frame
    r_x_hat,       \* D's score of x_hat: the landmarks D was given, and the
                   \* parameter groups the score depends on
    gradEG,        \* losses accumulated in the .grad of E's and G's parameters
    gradD,         \* losses accumulated in the .grad of D's parameters
    appliedEG,     \* what optimizer_E_G.step last applied
    appliedD,      \* what optimizer_D.step last applied
    events,        \* optimizer events of the current batch, in order
    stepsEG,       \* optimizer_E_G.step calls of the run
    stepsD,        \* optimizer_D.step calls of the run
    completed,     \* batches of the run that ran to line 126
    outLog,        \* progress / image / checkpoint outputs of the current batch
    exported,      \* the x_hat handed to save_image last
    ckpt,          \* networks saved by the checkpoint in progress or last made
    saveCount,     \* save_model calls of the run that wrote their file
    lastSave       \* the class, time and file name of the last such call

vars == << pc, error, cudaAvailable, ngpu, device, continue_id, now, run_start,
           files, loaded, loc, cudaOps, optimizers, datasetLen, epoch, pos,
           video, t, e_vectors, e_hat, x_hat, r_x_hat, gradEG, gradD,
           appliedEG, appliedD, events, stepsEG, stepsD, completed, outLog,
           exported, ckpt, saveCount, lastSave >>

----------------------------------------------------------------------------
(* Bounds of the exploration *)

MaxDataset == 2000   \* the longest dataset explored, and the batches followed per run
MaxSmall == 2        \* the short datasets explored: 0..MaxSmall
MaxEpochs == 2       \* epochs followed per run
MaxFrames == 3       \* the longest video explored
MaxMinute == 1       \* the clock runs over minutes 0..MaxMinute

(* Program constants *)

EPOCHS == 100        \* config.EPOCHS
LogEvery == 100      \* progress / image period
SaveEvery == 2000    \* mid-epoch checkpoint period

None == "None"
NoId == << >>
MODELS_DIR == "/home/ubuntu/k32s10000/models"
Networks == <<"Embedder", "Generator", "Discriminator">>
NetworkSet == {"Embedder", "Generator", "Discriminator"}

----------------------------------------------------------------------------
(* Time and file names *)

Seconds == {0, 59}
Times == [min : 0..MaxMinute, sec : Seconds]
Epoch0 == [min |-> 0, sec |-> 0]
NotBefore(a, b) == a.min > b.min \/ (a.min = b.min /\ a.sec >= b.sec)

\* f'{T:%Y%m%d_%H%M}': the stamp keeps the minute and drops the seconds.
FormatId(T) == << T.min >>

\* save_model: os.path.join(MODELS_DIR, f'{type(model).__name__}_{T:%Y%m%d_%H%M}.pth')
SaveFileName(cls, T) == << MODELS_DIR, cls, "_", FormatId(T), ".pth" >>

\* a load_model that looks for another extension than save_model writes
LoadFileNameOtherExt(cls, id) == << MODELS_DIR, cls, "_", id, ".pt" >>

\* load_model: os.path.join(MODELS_DIR, f'{type(model).__name__}_{continue_id}.pth')
LoadFileName(cls, id) == << MODELS_DIR, cls, "_", id, ".pth" >>

----------------------------------------------------------------------------
(* Device selection *)

\* main: 'cuda:0' if (torch.cuda.is_available() and args.ngpu > 0) else 'cpu'
MainDevice(avail, n) == IF avail /\ n > 0 THEN "cuda:0" ELSE "cpu"

\* meta_train: device is not None and device != 'cpu'
TrainOnGpu(dev) == dev # None /\ dev # "cpu"

\* the placement .type(dtype) gives a network and every input tensor
DtypeLoc(dev) == IF TrainOnGpu(dev) THEN "cuda" ELSE "cpu"

\* save_model: gpu is not None
SaveOnGpu(gpu) == gpu # None

----------------------------------------------------------------------------
(* Sequences *)

Front(s) == SubSeq(s, 1, Len(s) - 1)
Last(s) == s[Len(s)]
IsPrefix(s, u) == Len(s) <= Len(u) /\ SubSeq(u, 1, Len(s)) = s
Range(s) == { s[k] : k \in 1..Len(s) }

----------------------------------------------------------------------------
(* The batch: frames, embedding, generated frame *)

\* a video the dataset yields: n frames, named by their position
VideoOf(n) == [ k \in 1..n |-> k ]

\* t = video.pop(): the frame put aside
PopTarget(v) == Last(v)

\* a target that is read but left in the list (video[-1] for video.pop())
PopRemainderKeepsTarget(v) == v

\* what video.pop() leaves in the list
PopRemainder(v) == Front(v)

\* torch.stack(e_vectors).mean(dim=0): the embeddings averaged
MeanOf(vecs) == vecs

NoFrame == [ y |-> 0, e |-> << >>, gen |-> 0 - 1, detached |-> FALSE ]

\* x_hat = G(y_t, e_hat): driven by the landmarks of y and the embedding e,
\* computed with the parameters after gen steps of optimizer_E_G
Generated(y, e, gen) == [ y |-> y, e |-> e, gen |-> gen, detached |-> FALSE ]

\* x_hat = G(y_t, e_hat).detach()
Detached(x) == [ x EXCEPT !.detached = TRUE ]

----------------------------------------------------------------------------
(* Gradient bookkeeping: which parameter groups a tensor depends on in the  *)
(* autograd graph, and which losses reach which group on backward           *)

\* parameter groups of the two optimizers
GroupEG == "E_G"
GroupD == "D"

\* a generated frame depends on E and G unless it was detached
FrameDeps(x) == IF x.detached THEN {} ELSE {GroupEG}

\* D(x, y_t, i): the score and activations depend on D and on what x depends on
DiscriminatorDeps(xdeps) == {GroupD} \cup xdeps

NoScore == [ y |-> 0, deps |-> {} ]

\* r_x_hat, D_act_hat = D(x_hat, y_t, i)
Score(x, y) == [ y |-> y, deps |-> DiscriminatorDeps(FrameDeps(x)) ]

\* criterion_E_G(x_t, x_hat, r_x_hat, e_hat, D.W[:, i], D_act, D_act_hat)
LossEGDeps(x, rxh) ==
    FrameDeps(x) \cup rxh \cup {GroupEG} \cup {GroupD}
        \cup DiscriminatorDeps({}) \cup DiscriminatorDeps(FrameDeps(x))

\* criterion_D(r_x, r_x_hat)
LossDDeps(rxh) == DiscriminatorDeps({}) \cup rxh

\* losses summed into the scalar of the joint backward pass
JointLosses == {"loss_E_G", "loss_D"}

\* losses of the second backward pass
SecondLosses == {"loss_D"}

LossDeps(l, x, rxh) == IF l = "loss_E_G" THEN LossEGDeps(x, rxh) ELSE LossDDeps(rxh)

\* loss.backward(): the losses that add to the .grad of group g
BackwardInto(g, losses, x, rxh) == { l \in losses : g \in LossDeps(l, x, rxh) }

----------------------------------------------------------------------------
(* Optimizer events of a batch *)

\* optimizer_E_G.zero_grad(); optimizer_D.zero_grad()
ZeroGradBoth == << "zero_E_G", "zero_D" >>

\* a second pass that does not zero the discriminator's gradients
ZeroGradAgainMissing == << >>

\* optimizer_D.zero_grad()
ZeroGradAgain == << "zero_D" >>

----------------------------------------------------------------------------
(* Periodic output *)

batch_num == pos - 1

\* (batch_num + 1) % 100 == 0 or batch_num == 0
ProgressDue(b) == (b + 1) % LogEvery = 0 \/ b = 0

\* an image export on the condition of the progress log
ImagesDueAlsoFirst(b) == (b + 1) % LogEvery = 0 \/ b = 0

\* (batch_num + 1) % 100 == 0
ImagesDue(b) == (b + 1) % LogEvery = 0

\* (batch_num + 1) % 2000 == 0
CheckpointDue(b) == (b + 1) % SaveEvery = 0

AfterImages(b) == IF CheckpointDue(b) THEN "checkpoint" ELSE "fetch"
AfterProgress(b) == IF ImagesDue(b) THEN "images" ELSE AfterImages(b)
AfterBatch(b) == IF ProgressDue(b) THEN "progress" ELSE AfterProgress(b)

----------------------------------------------------------------------------
(* Initial states: the command line, the machine, the clock, the disk and   *)
(* the dataset.  Runs that resume from an earlier checkpoint are followed   *)
(* on the short datasets, fresh runs on every dataset; the run over the     *)
(* longest dataset starts when the clock does.                              *)

NoSave == [ cls |-> "", T |-> Epoch0, name |-> << >> ]

\* a models directory left by an earlier run that saved at time P
SavedAt(P) == { SaveFileName(c, P) : c \in NetworkSet }

DatasetSizes == (0..MaxSmall) \cup {MaxDataset}

Init ==
    /\ pc = "main"
    /\ error = "none"
    /\ cudaAvailable \in BOOLEAN
    /\ ngpu \in {0, 1}
    /\ device = None
    /\ now \in Times
    /\ run_start = now
    /\ datasetLen \in DatasetSizes
    /\ \/ /\ continue_id = NoId
          /\ files = {}
       \/ /\ datasetLen <= MaxSmall
          /\ continue_id \in { FormatId(P) : P \in Times }
          /\ files \in { {} } \cup { SavedAt(P) : P \in { T \in Times : NotBefore(now, T) } }
    /\ datasetLen = MaxDataset => now = Epoch0
    /\ loaded = << >>
    /\ loc = [ c \in NetworkSet |-> "cpu" ]
    /\ cudaOps = << >>
    /\ optimizers = {}
    /\ epoch = 0
    /\ pos = 0
    /\ video = << >>
    /\ t = 0
    /\ e_vectors = << >>
    /\ e_hat = << >>
    /\ x_hat = NoFrame
    /\ r_x_hat = NoScore
    /\ gradEG = {}
    /\ gradD = {}
    /\ appliedEG = {}
    /\ appliedD = {}
    /\ events = << >>
    /\ stepsEG = 0
    /\ stepsD = 0
    /\ completed = 0
    /\ outLog = << >>
    /\ exported = NoFrame
    /\ ckpt = << >>
    /\ saveCount = 0
    /\ lastSave = NoSave

machineVars == << cudaAvailable, ngpu, datasetLen, continue_id >>
batchVars == << video, t, e_vectors, e_hat, x_hat, r_x_hat >>
gradVars == << gradEG, gradD, appliedEG, appliedD >>
countVars == << stepsEG, stepsD, completed >>
diskVars == << files, loaded, ckpt, saveCount, lastSave >>
outVars == << outLog, exported >>

\* an exception leaves meta_train; main logs it and raises it again
Raise(where) == pc' = "failed" /\ error' = where

----------------------------------------------------------------------------
(* main and the set-up of meta_train *)

\* main, lines 264-269, and run_start = datetime.now(), line 21
Main ==
    /\ pc = "main"
    /\ device' = MainDevice(cudaAvailable, ngpu)
    /\ run_start' = now
    /\ pc' = "setup"
    /\ UNCHANGED << error, machineVars, now, loc, cudaOps, optimizers, epoch, pos,
                    batchVars, gradVars, events, countVars, diskVars, outVars >>

\* lines 24-51: torch.cuda.set_device on a GPU run, then the three networks
\* are built and given dtype
Construct ==
    /\ pc = "setup"
    /\ loc' = [ c \in NetworkSet |-> DtypeLoc(device) ]
    /\ cudaOps' = IF TrainOnGpu(device)
                  THEN cudaOps \o << "set_device", "type:Embedder",
                                     "type:Generator", "type:Discriminator" >>
                  ELSE cudaOps
    /\ pc' = "load"
    /\ UNCHANGED << error, machineVars, device, now, run_start, optimizers, epoch,
                    pos, batchVars, gradVars, events, countVars, diskVars, outVars >>

\* the files load_model reads for E, G and D, lines 54-56
LoadOrder(id) == [ k \in 1..3 |-> LoadFileName(Networks[k], id) ]

\* the longest prefix of names that are all on disk: torch.load raises on
\* the first file that is missing
RECURSIVE ReadablePrefix(_, _)
ReadablePrefix(names, disk) ==
    IF names = << >> \/ names[1] \notin disk
    THEN << >>
    ELSE << names[1] >> \o ReadablePrefix(Tail(names), disk)

\* lines 53-56
LoadModels ==
    /\ pc = "load"
    /\ IF continue_id # NoId
       THEN /\ loaded' = ReadablePrefix(LoadOrder(continue_id), files)
            /\ IF Len(loaded') = Len(LoadOrder(continue_id))
               THEN pc' = "optim" /\ UNCHANGED error
               ELSE Raise("load_model")
       ELSE /\ pc' = "optim"
            /\ UNCHANGED << loaded, error >>
    /\ UNCHANGED << machineVars, device, now, run_start, files, ckpt, saveCount,
                    lastSave, loc, cudaOps, optimizers, epoch, pos, batchVars, gradVars,
                    events, countVars, outVars >>

\* lines 58-68
CreateOptimizers ==
    /\ pc = "optim"
    /\ optimizers' = { "optimizer_E_G", "optimizer_D" }
    /\ pc' = "epoch"
    /\ UNCHANGED << error, machineVars, device, now, run_start, loc, cudaOps,
                    epoch, pos, batchVars, gradVars, events, countVars, diskVars,
                    outVars >>

----------------------------------------------------------------------------
(* The loops *)

\* for epoch in range(config.EPOCHS), lines 73-79
EpochHead ==
    /\ pc = "epoch"
    /\ IF epoch < EPOCHS
       THEN /\ epoch < MaxEpochs
            /\ pos' = 0
            /\ pc' = "fetch"
       ELSE /\ pc' = "done"
            /\ UNCHANGED pos
    /\ UNCHANGED << error, machineVars, device, now, run_start, loc, cudaOps,
                    optimizers, epoch, batchVars, gradVars, events, countVars,
                    diskVars, outVars >>

\* for batch_num, (i, video) in enumerate(dataset), lines 81-82: one more video
NextBatch ==
    /\ pc = "fetch"
    /\ pos < datasetLen
    /\ completed < MaxDataset
    /\ pos' = pos + 1
    /\ \E n \in 0..MaxFrames : video' = VideoOf(n)
    /\ t' = 0
    /\ e_vectors' = << >>
    /\ e_hat' = << >>
    /\ events' = << >>
    /\ outLog' = << >>
    /\ ckpt' = << >>
    /\ pc' = "pop"
    /\ UNCHANGED << error, machineVars, device, now, run_start, loc, cudaOps,
                    optimizers, epoch, x_hat, r_x_hat, gradVars, countVars,
                    files, loaded, saveCount, lastSave, exported >>

\* the dataset is exhausted: the inner loop ends, line 148
DatasetExhausted ==
    /\ pc = "fetch"
    /\ pos = datasetLen
    /\ ckpt' = << >>
    /\ pc' = "epoch_save"
    /\ UNCHANGED << error, machineVars, device, now, run_start, loc, cudaOps,
                    optimizers, epoch, pos, batchVars, gradVars, events,
                    countVars, files, loaded, saveCount, lastSave, outVars >>

----------------------------------------------------------------------------
(* One batch, lines 84-126 *)

\* t = video.pop(), line 85: IndexError on an empty list
Pop ==
    /\ pc = "pop"
    /\ IF video = << >>
       THEN /\ Raise("pop")
            /\ UNCHANGED << video, t >>
       ELSE /\ t' = PopTarget(video)
            /\ video' = PopRemainder(video)
            /\ pc' = "embed"
            /\ UNCHANGED error
    /\ UNCHANGED << machineVars, device, now, run_start, loc, cudaOps, optimizers,
                    epoch, pos, e_vectors, e_hat, x_hat, r_x_hat, gradVars,
                    events, countVars, diskVars, outVars >>

\* one turn of for s in video, lines 89-92: the inputs get dtype, and E
\* raises when its weights are not where dtype puts the inputs
Embed ==
    /\ pc = "embed"
    /\ Len(e_vectors) < Len(video)
    /\ IF loc["Embedder"] = DtypeLoc(device)
       THEN /\ e_vectors' = Append(e_vectors, video[Len(e_vectors) + 1])
            /\ UNCHANGED << pc, error >>
       ELSE /\ Raise("forward")
            /\ UNCHANGED e_vectors
    /\ UNCHANGED << machineVars, device, now, run_start, loc, cudaOps, optimizers,
                    epoch, pos, video, t, e_hat, x_hat, r_x_hat, gradVars, events,
                    countVars, diskVars, outVars >>

\* e_hat = torch.stack(e_vectors).mean(dim=0), line 93: torch.stack raises
\* on an empty list
Mean ==
    /\ pc = "embed"
    /\ Len(e_vectors) = Len(video)
    /\ IF e_vectors = << >>
       THEN /\ Raise("stack")
            /\ UNCHANGED e_hat
       ELSE /\ e_hat' = MeanOf(e_vectors)
            /\ pc' = "forward"
            /\ UNCHANGED error
    /\ UNCHANGED << machineVars, device, now, run_start, loc, cudaOps, optimizers,
                    epoch, pos, video, t, e_vectors, x_hat, r_x_hat, gradVars,
                    events, countVars, diskVars, outVars >>

\* lines 96-102: x_hat = G(y_t, e_hat), then D on x_hat and on x_t
Forward ==
    /\ pc = "forward"
    /\ IF loc["Generator"] = DtypeLoc(device) /\ loc["Discriminator"] = DtypeLoc(device)
       THEN /\ x_hat' = Generated(t, e_hat, stepsEG)
            /\ r_x_hat' = Score(x_hat', t)
            /\ pc' = "zero"
            /\ UNCHANGED error
       ELSE /\ Raise("forward")
            /\ UNCHANGED << x_hat, r_x_hat >>
    /\ UNCHANGED << machineVars, device, now, run_start, loc, cudaOps, optimizers,
                    epoch, pos, video, t, e_vectors, e_hat, gradVars, events,
                    countVars, diskVars, outVars >>

\* lines 104-105
ZeroGrad ==
    /\ pc = "zero"
    /\ gradEG' = {}
    /\ gradD' = {}
    /\ events' = events \o ZeroGradBoth
    /\ pc' = "backward"
    /\ UNCHANGED << error, machineVars, device, now, run_start, loc, cudaOps,
                    optimizers, epoch, pos, batchVars, appliedEG, appliedD,
                    countVars, diskVars, outVars >>

\* lines 107-110: loss = loss_E_G + loss_D; loss.backward()
Backward ==
    /\ pc = "backward"
    /\ gradEG' = gradEG \cup BackwardInto(GroupEG, JointLosses, x_hat, r_x_hat.deps)
    /\ gradD' = gradD \cup BackwardInto(GroupD, JointLosses, x_hat, r_x_hat.deps)
    /\ events' = Append(events, "backward")
    /\ pc' = "step_E_G"
    /\ UNCHANGED << error, machineVars, device, now, run_start, loc, cudaOps,
                    optimizers, epoch, pos, batchVars, appliedEG, appliedD,
                    countVars, diskVars, outVars >>

\* optimizer_E_G.step(), line 112
StepEG ==
    /\ pc = "step_E_G"
    /\ appliedEG' = gradEG
    /\ stepsEG' = stepsEG + 1
    /\ events' = Append(events, "step_E_G")
    /\ pc' = "step_D"
    /\ UNCHANGED << error, machineVars, device, now, run_start, loc, cudaOps,
                    optimizers, epoch, pos, batchVars, gradEG, gradD, appliedD,
                    stepsD, completed, diskVars, outVars >>

\* optimizer_D.step(), line 113
StepD ==
    /\ pc = "step_D"
    /\ appliedD' = gradD
    /\ stepsD' = stepsD + 1
    /\ events' = Append(events, "step_D")
    /\ pc' = "forward_again"
    /\ UNCHANGED << error, machineVars, device, now, run_start, loc, cudaOps,
                    optimizers, epoch, pos, batchVars, gradEG, gradD, appliedEG,
                    stepsEG, completed, diskVars, outVars >>

\* lines 116-118: x_hat = G(y_t, e_hat).detach(), then D again
ForwardAgain ==
    /\ pc = "forward_again"
    /\ x_hat' = Detached(Generated(t, e_hat, stepsEG))
    /\ r_x_hat' = Score(x_hat', t)
    /\ pc' = "zero_again"
    /\ UNCHANGED << error, machineVars, device, now, run_start, loc, cudaOps,
                    optimizers, epoch, pos, video, t, e_vectors, e_hat, gradVars,
                    events, countVars, diskVars, outVars >>

\* optimizer_D.zero_grad(), line 120
ZeroGradD ==
    /\ pc = "zero_again"
    /\ gradD' = {}
    /\ events' = events \o ZeroGradAgain
    /\ pc' = "backward_again"
    /\ UNCHANGED << error, machineVars, device, now, run_start, loc, cudaOps,
                    optimizers, epoch, pos, batchVars, gradEG, appliedEG, appliedD,
                    countVars, diskVars, outVars >>

\* lines 121-122: loss_D.backward()
BackwardD ==
    /\ pc = "backward_again"
    /\ gradEG' = gradEG \cup BackwardInto(GroupEG, SecondLosses, x_hat, r_x_hat.deps)
    /\ gradD' = gradD \cup BackwardInto(GroupD, SecondLosses, x_hat, r_x_hat.deps)
    /\ events' = Append(events, "backward")
    /\ pc' = "step_D_again"
    /\ UNCHANGED << error, machineVars, device, now, run_start, loc, cudaOps,
                    optimizers, epoch, pos, batchVars, appliedEG, appliedD,
                    countVars, diskVars, outVars >>

\* optimizer_D.step(), line 123, and the end of the batch, lines 125-126
StepDAgain ==
    /\ pc = "step_D_again"
    /\ appliedD' = gradD
    /\ stepsD' = stepsD + 1
    /\ events' = Append(events, "step_D")
    /\ completed' = completed + 1
    /\ pc' = AfterBatch(batch_num)
    /\ UNCHANGED << error, machineVars, device, now, run_start, loc, cudaOps,
                    optimizers, epoch, pos, batchVars, gradEG, gradD, appliedEG,
                    stepsEG, diskVars, outVars >>

----------------------------------------------------------------------------
(* Progress, sample images and checkpoints, lines 127-156 *)

\* lines 128-133
Progress ==
    /\ pc = "progress"
    /\ outLog' = Append(outLog, "progress")
    /\ pc' = AfterProgress(batch_num)
    /\ UNCHANGED << error, machineVars, device, now, run_start, loc, cudaOps,
                    optimizers, epoch, pos, batchVars, gradVars, events,
                    countVars, diskVars, exported >>

\* the two save_image calls, lines 140-141
ImagePair == << "x_t", "x_hat" >>

\* lines 136-141
SaveImages ==
    /\ pc = "images"
    /\ outLog' = outLog \o ImagePair
    /\ exported' = x_hat
    /\ pc' = AfterImages(batch_num)
    /\ UNCHANGED << error, machineVars, device, now, run_start, loc, cudaOps,
                    optimizers, epoch, pos, batchVars, gradVars, events,
                    countVars, diskVars >>

\* the networks a checkpoint saves, in order: lines 144-146 and 150-152
CheckpointOrder == Networks

\* save_model(model, gpu, T), lines 159-182, for the next network of the
\* checkpoint: the weights go to the CPU when gpu is not None, the file is
\* written, and the weights go back with model.cuda(), which raises on a
\* machine without CUDA
SaveModel(gpu, T, after) ==
    LET cls == CheckpointOrder[Len(ckpt) + 1]
        last == Len(ckpt) + 1 = Len(CheckpointOrder)
    IN  /\ files' = files \cup { SaveFileName(cls, T) }
        /\ saveCount' = saveCount + 1
        /\ lastSave' = [ cls |-> cls, T |-> T, name |-> SaveFileName(cls, T) ]
        /\ ckpt' = Append(ckpt, cls)
        /\ outLog' = Append(outLog, "save:" \o cls)
        /\ IF SaveOnGpu(gpu)
           THEN /\ cudaOps' = Append(cudaOps, "cuda:" \o cls)
                /\ IF cudaAvailable
                   THEN /\ loc' = [ loc EXCEPT ![cls] = "cuda" ]
                        /\ pc' = IF last THEN after ELSE pc
                        /\ UNCHANGED error
                   ELSE /\ loc' = [ loc EXCEPT ![cls] = "cpu" ]
                        /\ Raise("cuda")
           ELSE /\ pc' = IF last THEN after ELSE pc
                /\ UNCHANGED << loc, cudaOps, error >>

\* lines 143-146: save_model(E, device), save_model(G, device),
\* save_model(D, device), each named by the clock at its call
CheckpointSave ==
    /\ pc = "checkpoint"
    /\ \E T \in Times :
          /\ NotBefore(T, now)
          /\ now' = T
          /\ SaveModel(device, T, "fetch")
    /\ UNCHANGED << machineVars, device, run_start, loaded, optimizers, epoch,
                    pos, batchVars, gradVars, events, countVars, exported >>

\* lines 150-152: the same three calls, named by run_start
EpochSave ==
    /\ pc = "epoch_save"
    /\ SaveModel(device, run_start, "epoch_end")
    /\ UNCHANGED << machineVars, device, now, run_start, loaded, optimizers,
                    epoch, pos, batchVars, gradVars, events, countVars, exported >>

\* lines 153-156, and the next turn of the outer loop
EpochEnd ==
    /\ pc = "epoch_end"
    /\ epoch' = epoch + 1
    /\ pc' = "epoch"
    /\ UNCHANGED << error, machineVars, device, now, run_start, loc, cudaOps,
                    optimizers, pos, batchVars, gradVars, events, countVars,
                    diskVars, outVars >>

----------------------------------------------------------------------------

Next ==
    \/ Main
    \/ Construct
    \/ LoadModels
    \/ CreateOptimizers
    \/ EpochHead
    \/ NextBatch
    \/ DatasetExhausted
    \/ Pop
    \/ Embed
    \/ Mean
    \/ Forward
    \/ ZeroGrad
    \/ Backward
    \/ StepEG
    \/ StepD
    \/ ForwardAgain
    \/ ZeroGradD
    \/ BackwardD
    \/ StepDAgain
    \/ Progress
    \/ SaveImages
    \/ CheckpointSave
    \/ EpochSave
    \/ EpochEnd

Spec == Init /\ [][Next]_vars

----------------------------------------------------------------------------
(* Properties *)

\* positions inside a batch, from the pop to the last optimizer step
TrainingPcs == { "pop", "embed", "forward", "zero", "backward", "step_E_G",
                 "step_D", "forward_again", "zero_again", "backward_again",
                 "step_D_again" }

\* positions of a batch after its last optimizer step
OutputPcs == { "progress", "images", "checkpoint" }

\* the optimizer events of one batch, as the training loop is documented
BatchEvents == << "zero_E_G", "zero_D", "backward", "step_E_G", "step_D",
                  "zero_D", "backward", "step_D" >>

Count(s, e) == Cardinality({ k \in 1..Len(s) : s[k] = e })

\* the events of a batch that has not run to its end
InFlight == IF events = BatchEvents THEN << >> ELSE events

\* C1: the optimizer events of a batch are always a prefix of zero both,
\* backward, step E_G, step D, zero D, backward, step D; a batch that leaves
\* the training part has made all of them; and with n batches completed
\* optimizer_E_G has stepped n times and optimizer_D 2n times, plus the steps
\* of the batch in progress.
Thm_C1 ==
    /\ IsPrefix(events, BatchEvents)
    /\ pc \in OutputPcs => events = BatchEvents
    /\ pc \in TrainingPcs => events # BatchEvents
    /\ stepsEG = completed + Count(InFlight, "step_E_G")
    /\ stepsD = 2 * completed + Count(InFlight, "step_D")

Wit_C1 == completed = 2 /\ events = BatchEvents /\ stepsEG = 2 /\ stepsD = 4

\* checkpoints due before the current position: one per epoch ended, one per
\* SaveEvery batches of each epoch
CheckpointsDue ==
    epoch * ((datasetLen \div SaveEvery) + 1)
        + (IF pc = "fetch" THEN pos \div SaveEvery ELSE 0)

\* C2: a checkpoint never saves a proper subset of E, G, D, saves them in
\* that order, and between batches the run has made exactly the checkpoints
\* due: one at every batch whose index is a multiple of 2000 and one at the
\* end of every epoch.
Claim_C2 ==
    /\ IsPrefix(ckpt, Networks)
    /\ pc \notin { "checkpoint", "epoch_save" } => Len(ckpt) \in { 0, 3 }
    /\ pc \in { "fetch", "epoch" } => saveCount = 3 * CheckpointsDue

\* C3: a run that main starts with device 'cpu' performs no operation that
\* selects a CUDA device or moves a network to the GPU.
Claim_C3 == device = "cpu" => cudaOps = << >>

\* the three files a checkpoint taken at time T consists of, in load order
CheckpointOf(T) == [ k \in 1..3 |-> SaveFileName(Networks[k], T) ]

\* C4: every file save_model(C, device, T) writes is the file
\* load_model(C, id) reads for id the stamp of T; once an optimizer exists or
\* a batch was fetched, a run with a continue_id has loaded the three files
\* of the checkpoint with that stamp, and a run without one has loaded
\* nothing.
Thm_C4 ==
    /\ lastSave # NoSave =>
          /\ lastSave.name = LoadFileName(lastSave.cls, FormatId(lastSave.T))
          /\ lastSave.name \in files
    /\ continue_id = NoId => loaded = << >>
    /\ (continue_id # NoId /\ (optimizers # {} \/ pos > 0 \/ epoch > 0)) =>
          \A T \in Times : FormatId(T) = continue_id => loaded = CheckpointOf(T)
    /\ (pc \in TrainingPcs \cup OutputPcs) => Cardinality(optimizers) = 2

Wit_C4 ==
    /\ Len(loaded) = 3
    /\ continue_id = FormatId(run_start)
    /\ lastSave.name = loaded[1]
    /\ completed > 0

\* the outputs of the batch with 0-based index b
ExpectedOutputs(b) ==
    (IF (b + 1) % LogEvery = 0 \/ b = 0 THEN << "progress" >> ELSE << >>)
        \o (IF (b + 1) % LogEvery = 0 THEN << "x_t", "x_hat" >> ELSE << >>)
        \o (IF (b + 1) % SaveEvery = 0
            THEN << "save:Embedder", "save:Generator", "save:Discriminator" >>
            ELSE << >>)

\* C5: a batch writes progress log, image pair and checkpoint in this order,
\* the image pair exactly when its 1-based index is a multiple of 100 and the
\* checkpoint exactly when it is a multiple of 2000; and the x_hat exported
\* is the detached frame generated after the optimizer_E_G step of the batch.
Thm_C5 ==
    /\ pc \in TrainingPcs => outLog = << >>
    /\ pc \in OutputPcs => IsPrefix(outLog, ExpectedOutputs(batch_num))
    /\ (pc = "fetch" /\ pos > 0) => outLog = ExpectedOutputs(batch_num)
    /\ (pc \in { "checkpoint", "fetch" } /\ pos > 0 /\ pos % LogEvery = 0) =>
          /\ exported = x_hat
          /\ exported.detached
          /\ exported.gen = stepsEG
          /\ exported.y = t

Wit_C5 ==
    /\ pc = "fetch"
    /\ pos = SaveEvery
    /\ outLog = << "progress", "x_t", "x_hat", "save:Embedder",
                   "save:Generator", "save:Discriminator" >>
    /\ exported.gen = SaveEvery

\* C6: the frame put aside is not among the frames fed to the embedder;
\* e_hat averages exactly the other frames of the video, each once; the
\* generator and the discriminator get the landmarks of the frame put aside; a
\* video of no frame fails at the pop, one of a single frame at the mean,
\* both before any optimizer event of the batch.
Thm_C6 ==
    /\ t # 0 => t \notin Range(e_vectors) /\ t \notin Range(video)
    /\ e_hat # << >> => e_hat = VideoOf(t - 1)
    /\ (pc \in (TrainingPcs \ { "pop", "embed", "forward" }) \cup OutputPcs) =>
          /\ t >= 2
          /\ e_hat # << >>
          /\ x_hat.y = t
          /\ x_hat.e = e_hat
          /\ r_x_hat.y = t
    /\ events # << >> => t >= 2
    /\ error = "pop" => t = 0 /\ video = << >> /\ events = << >>
    /\ error = "stack" => t = 1 /\ e_vectors = << >> /\ events = << >>

Wit_C6 == pc = "zero" /\ t = 3 /\ e_hat = << 1, 2 >> /\ x_hat.y = 3 /\ r_x_hat.y = 3

\* C7: optimizer_E_G.step applies a gradient of loss_E_G only, and
\* optimizer_D.step a gradient of loss_D only.
Claim_C7 == appliedEG \subseteq { "loss_E_G" } /\ appliedD \subseteq { "loss_D" }

====
